---- MODULE Spec2Model ----
(***************************************************************************)
(* A model of ubuntu_server_triage.py: one run of main(), which connects   *)
(* to Launchpad, reports the team's backlog, resolves the date range       *)
(* (check_dates), derives the bugs modified in the range by subtracting    *)
(* two "modified since" searches (modified_bugs) and prints one line per   *)
(* bug (print_bugs / Task.compose_pretty).                                 *)
(*                                                                         *)
(* Text is a sequence of one-character strings.  A date string             *)
(* "YYYY-MM-DD" is the triple of its numeric fields <<y, m, d>>; a         *)
(* datetime is a number of half-days since the proleptic Gregorian epoch   *)
(* (2 * ordinal for midnight, 2 * ordinal + 1 for noon).                   *)
(***************************************************************************)
EXTENDS Integers, Sequences, FiniteSets

VARIABLES
    start,            \* main's argument start (None or a date string)
    end,              \* main's argument end   (None or a date string)
    nodatefilter,     \* main's argument nodatefilter
    bugsubscriber,    \* main's argument bugsubscriber
    open_in_browser,  \* main's argument open_in_browser
    shortlinks,       \* main's argument shortlinks
    now,              \* what datetime.now() returns during the run
    remote,           \* the remote task collection of the Ubuntu distribution
    repeats,          \* whether the service's listings repeat an entry
    pc,               \* position in main
    calls,            \* the remote calls made so far, in order
    log,              \* the lines logged to stdout so far
    opened,           \* the URLs handed to webbrowser.open so far
    dates,            \* what check_dates returned (or that it raised)
    bugs,             \* the set of Task objects create_bug_list returned
    error             \* the exception that ended the run, "" if none

vars == <<start, end, nodatefilter, bugsubscriber, open_in_browser, shortlinks,
          now, remote, repeats, pc, calls, log, opened, dates, bugs, error>>

args == <<start, end, nodatefilter, bugsubscriber, open_in_browser, shortlinks,
          now, remote, repeats>>

------------------------------------------------------------------------------
(* Bounds of the model. *)

\* how many tasks the remote collection holds at most
MaxBugs == 2

\* how many consecutive days the user-supplied dates are drawn from
NumDays == 3

------------------------------------------------------------------------------
(* Python values: None, str (a date string), datetime. *)

NoneVal == [tag |-> "None", ymd |-> <<>>, t |-> 0]

StrVal(ymd) == [tag |-> "str", ymd |-> ymd, t |-> 0]

DatetimeVal(t) == [tag |-> "datetime", ymd |-> <<>>, t |-> t]

\* Python truthiness of an argument: "if not start"
Truthy(v) == v.tag # "None"

------------------------------------------------------------------------------
(* The calendar of datetime: proleptic Gregorian, ordinal 1 = 0001-01-01. *)

Years == 2015..2018

IsLeap(y) == (y % 4 = 0) /\ ((y % 100 # 0) \/ (y % 400 = 0))

DaysInMonth(y, m) ==
    IF m = 2 THEN (IF IsLeap(y) THEN 29 ELSE 28)
    ELSE IF m \in {4, 6, 9, 11} THEN 30 ELSE 31

DaysBeforeYear(y) ==
    (y - 1) * 365 + ((y - 1) \div 4) - ((y - 1) \div 100) + ((y - 1) \div 400)

RECURSIVE DaysBeforeMonth(_, _)
DaysBeforeMonth(y, m) ==
    IF m = 1 THEN 0 ELSE DaysBeforeMonth(y, m - 1) + DaysInMonth(y, m - 1)

\* date(y, m, d).toordinal()
toordinal(ymd) ==
    DaysBeforeYear(ymd[1]) + DaysBeforeMonth(ymd[1], ymd[2]) + ymd[3]

\* date.fromordinal(n), as the fields <<y, m, d>>
fromordinal(n) ==
    LET y == CHOOSE yy \in Years :
                 DaysBeforeYear(yy) < n /\ n <= DaysBeforeYear(yy + 1)
        r == n - DaysBeforeYear(y)
        m == CHOOSE mm \in 1..12 :
                 DaysBeforeMonth(y, mm) < r
                 /\ r <= DaysBeforeMonth(y, mm) + DaysInMonth(y, mm)
    IN  <<y, m, r - DaysBeforeMonth(y, m)>>

\* date.weekday(): Monday is 0, Sunday is 6
weekday(n) == (n + 6) % 7

\* whether datetime.strptime(s, '%Y-%m-%d') succeeds
Parses(ymd) ==
    /\ Len(ymd) = 3
    /\ ymd[1] \in 1..9999
    /\ ymd[2] \in 1..12
    /\ ymd[3] \in 1..DaysInMonth(ymd[1], ymd[2])

\* datetime.strptime(s, '%Y-%m-%d'), as the ordinal of the day (midnight)
strptime(ymd) == toordinal(ymd)

\* d.strftime('%Y-%m-%d')
strftime(n) == fromordinal(n)

\* midnight of day n, noon of day n, and the day of a datetime
Midnight(n) == 2 * n

Noon(n) == 2 * n + 1

DayOf(t) == t \div 2

\* datetime.min: 0001-01-01 00:00
DatetimeMin == Midnight(1)

------------------------------------------------------------------------------
(* Log records: which function logged, the message, a numeric argument. *)

Line(fn, text) == [fn |-> fn, text |-> text, n |-> 0]

LineN(fn, text, n) == [fn |-> fn, text |-> text, n |-> n]

------------------------------------------------------------------------------
(* check_dates *)

\* DefaultRange with the weekend counted back from today instead of from
\* yesterday: the range starts on Saturday
DefaultRange_fromToday(endArg, today) ==
    LET yesterday == today - 1
    IN  IF weekday(yesterday) # 6
        THEN <<StrVal(strftime(yesterday)), endArg>>
        ELSE <<StrVal(strftime(today - 2)), StrVal(strftime(yesterday))>>

\* lines 151-157: the default range when no start date is given; a pair
\* <<start, end>> where end is the caller's end unless yesterday was a Sunday
DefaultRange(endArg, today) ==
    LET yesterday == today - 1
    IN  IF weekday(yesterday) # 6
        THEN <<StrVal(strftime(yesterday)), endArg>>
        ELSE <<StrVal(strftime(yesterday - 2)), StrVal(strftime(yesterday))>>

\* NextDay without the day added
NextDay_sameDay(ymd) == strftime(strptime(ymd))

\* lines 167-168: one day past the end date, as a date string
NextDay(ymd) == strftime(strptime(ymd) + 1)

\* check_dates(start, end, nodatefilter) when datetime.now() is nowT:
\* raised (a ValueError of strptime), the pair returned, the lines logged
check_dates(startArg, endArg, nodate, nowT) ==
    IF ~Truthy(startArg) /\ nodate
    THEN [raised |-> FALSE,
          start  |-> DatetimeVal(DatetimeMin),
          end    |-> DatetimeVal(nowT),
          log    |-> <<Line("check_dates", <<"Searching all bugs, no date filter">>)>>]
    ELSE
      LET dflt == DefaultRange(endArg, DayOf(nowT))
          s1   == IF Truthy(startArg) THEN startArg ELSE dflt[1]
          e1   == IF Truthy(startArg) THEN endArg ELSE dflt[2]
          e2   == IF Truthy(e1) THEN e1 ELSE s1
          pre  == IF Truthy(startArg) THEN <<>>
                  ELSE <<Line("check_dates", <<"No date set, auto-search yesterday/weekend">>),
                         Line("check_dates", <<"Please specify -a">>)>>
          rng  == <<Line("check_dates", <<"%s to %s (inclusive)">>)>>
      IN  IF Parses(e2.ymd)
          THEN [raised |-> FALSE,
                start  |-> s1,
                end    |-> StrVal(NextDay(e2.ymd)),
                log    |-> pre \o rng]
          ELSE [raised |-> TRUE,
                start  |-> s1,
                end    |-> e2,
                log    |-> pre \o rng]

------------------------------------------------------------------------------
(* Text: sequences of one-character strings, and the str methods used. *)

\* s.ljust(w): what '%-<w>s' % s produces
LJust(s, w) == s \o [i \in 1..(w - Len(s)) |-> " "]

\* s.replace(c, '') for a one-character c
Remove(s, c) == LET Other(x) == x # c IN SelectSeq(s, Other)

\* s.split(' '): the list of the fields between single spaces; SplitFrom
\* reads s from position i on, from being the start of the current field
RECURSIVE SplitFrom(_, _, _)
SplitFrom(s, from, i) ==
    IF i > Len(s) THEN <<SubSeq(s, from, Len(s))>>
    ELSE IF s[i] = " " THEN <<SubSeq(s, from, i - 1)>> \o SplitFrom(s, i + 1, i + 1)
    ELSE SplitFrom(s, from, i + 1)

Split(s) == SplitFrom(s, 1, 1)

\* ' '.join(words)
RECURSIVE Join(_)
Join(words) ==
    IF words = <<>> THEN <<>>
    ELSE IF Len(words) = 1 THEN words[1]
    ELSE words[1] \o <<" ">> \o Join(Tail(words))

\* whether p is a prefix of s
StartsWith(s, p) == Len(p) <= Len(s) /\ SubSeq(s, 1, Len(p)) = p

------------------------------------------------------------------------------
(* class Task *)

LONG_URL_ROOT == <<"h", "t", "t", "p", "s", ":", "/", "/", "b", "u", "g", "s", ".", "l", "a", "u", "n", "c", "h", "p", "a", "d", ".", "n", "e", "t", "/", "b", "u", "g", "s", "/">>

SHORTLINK_ROOT == <<"L", "P", ":", " ", "#">>

BUG_NUMBER_LENGTH == 7

\* Task.create_from_launchpadlib_object(obj, subscribed=...); id stands for the
\* identity of the new object (Task defines neither __eq__ nor __hash__)
Task(id, obj, subscribed) == [id |-> id, obj |-> obj, subscribed |-> subscribed]

title(task) == task.obj.title

status(task) == task.obj.status

number(task) == Remove(Split(title(task))[2], "#")

src(task) == Split(title(task))[4]

short_title(task) ==
    LET words == Split(title(task))
    IN  Remove(Join(SubSeq(words, 6, Len(words))), "\"")

url(task) == LONG_URL_ROOT \o number(task)

shortlink(task) == SHORTLINK_ROOT \o number(task)

\* bug_url padded to the width of the number alone
bug_url_narrow(task, short) ==
    IF short
    THEN LJust(shortlink(task), BUG_NUMBER_LENGTH)
    ELSE LJust(url(task), BUG_NUMBER_LENGTH)

\* lines 104-117: the link field
bug_url(task, short) ==
    IF short
    THEN LJust(shortlink(task), BUG_NUMBER_LENGTH + Len(SHORTLINK_ROOT))
    ELSE LJust(url(task), BUG_NUMBER_LENGTH + Len(LONG_URL_ROOT))

\* line 121: '%s(%s)' % (('*' if self.subscribed else ''), self.status)
status_field(task) ==
    (IF task.subscribed THEN <<"*">> ELSE <<>>) \o <<"(">> \o status(task) \o <<")">>

\* lines 119-123: '%s - %-16s %-16s - %s'
compose_pretty(task, short) ==
    bug_url(task, short)
    \o <<" ", "-", " ">>
    \o LJust(status_field(task), 16)
    \o <<" ">>
    \o LJust(<<"[">> \o src(task) \o <<"]">>, 16)
    \o <<" ", "-", " ">>
    \o short_title(task)

------------------------------------------------------------------------------
(* The titles and statuses the remote tasks of the model carry. *)

TitleExample == <<"B", "u", "g", " ", "#", "1", "2", "3", "4", "5", "6", " ", "i", "n", " ", "t", "h", "u", "n", "d", "e", "r", "b", "i", "r", "d", " ", "(", "U", "b", "u", "n", "t", "u", ")", ":", " ", "\"", "C", "r", "a", "s", "h", "e", "s", " ", "o", "n", " ", "s", "t", "a", "r", "t", "u", "p", "\"">>

TitleShort == <<"B", "u", "g", " ", "#", "4", "2", " ", "i", "n", " ", "v", "i", "m", " ", "(", "U", "b", "u", "n", "t", "u", ")", ":", " ", "\"", "N", "o", " ", "\"", "u", "n", "d", "o", "\"", "\"">>

TitleSeven == <<"B", "u", "g", " ", "#", "1", "2", "3", "4", "5", "6", "7", " ", "i", "n", " ", "q", "e", "m", "u", " ", "(", "U", "b", "u", "n", "t", "u", ")", ":", " ", "\"", "H", "a", "n", "g", "\"">>

TitleEight == <<"B", "u", "g", " ", "#", "1", "2", "3", "4", "5", "6", "7", "8", " ", "i", "n", " ", "l", "x", "d", " ", "(", "U", "b", "u", "n", "t", "u", ")", ":", " ", "\"", "S", "l", "o", "w", "\"">>

Titles == {TitleExample, TitleShort, TitleSeven, TitleEight}

StatusNew == <<"N", "e", "w">>

StatusIncomplete == <<"I", "n", "c", "o", "m", "p", "l", "e", "t", "e">>

Statuses == {StatusNew, StatusIncomplete}

------------------------------------------------------------------------------
(* The remote service: Launchpad.login_with and project.searchTasks. *)

\* the instant a modified_since argument stands for (no argument: no bound)
SinceTime(since) ==
    IF since.tag = "datetime" THEN since.t
    ELSE IF since.tag = "str" THEN Midnight(toordinal(since.ymd))
    ELSE 0

\* whether the service can read the modified_since argument as a timestamp
Accepts(since) == since.tag = "str" => Parses(since.ymd)

\* whether the team filter of a search selects the task
Subscribed(task, filter) ==
    /\ filter \in {"bug_subscriber", "both"} => task.direct
    /\ filter \in {"structural_subscriber", "both"} => task.structural

\* project.searchTasks(modified_since=since, <filter>=team) over collection
\* coll, iterated: the matching tasks, the first of them once more when the
\* listing repeats an entry (dup)
searchTasks(coll, since, filter, dup) ==
    LET Hit(task) == /\ task.date_last_updated >= SinceTime(since)
                     /\ Subscribed(task, filter)
        hits == SelectSeq(coll, Hit)
    IN  IF dup /\ hits # <<>> THEN Append(hits, hits[1]) ELSE hits

\* the record of one remote call: n is the number of entries a search returned
Call(op, since, filter, n) ==
    [op |-> op, since |-> since, filter |-> filter, n |-> n, ok |-> TRUE]

\* connect_launchpad()
Login == Call("login_with", NoneVal, "", 0)

Search(coll, since, filter, dup) ==
    Call("searchTasks", since, filter, Len(searchTasks(coll, since, filter, dup)))

\* the first k of the planned calls, the k-th of them failing
Attempted(planned, k) ==
    [i \in 1..k |-> IF i = k THEN [planned[i] EXCEPT !.ok = FALSE, !.n = 0]
                    ELSE planned[i]]

\* the calls the service is bound to refuse: searches it cannot read
Refused(planned) ==
    {i \in 1..Len(planned) :
        planned[i].op = "searchTasks" /\ ~Accepts(planned[i].since)}

\* where a run of the planned calls may fail: nowhere (0) or at any call, but
\* no later than the first call the service refuses
FailPoints(planned) ==
    {k \in 0..Len(planned) :
        \A i \in Refused(planned) : k # 0 /\ k <= i}

------------------------------------------------------------------------------
(* modified_bugs *)

\* DictKeys of a list that keeps every entry (no keying by self_link)
DictKeys_list(results) == [i \in DOMAIN results |-> results[i].self_link]

\* a dict comprehension {task.self_link: task for task in results}: the keys
\* in insertion order and the value kept for each (the last one)
RECURSIVE DictKeys(_)
DictKeys(results) ==
    IF results = <<>> THEN <<>>
    ELSE LET front == DictKeys(SubSeq(results, 1, Len(results) - 1))
             link  == results[Len(results)].self_link
         IN  IF \E i \in 1..Len(front) : front[i] = link
             THEN front ELSE Append(front, link)

DictValue(results, link) ==
    LET last == CHOOSE i \in 1..Len(results) :
                    /\ results[i].self_link = link
                    /\ \A j \in (i + 1)..Len(results) : results[j].self_link # link
    IN  results[last]

Dict(results) ==
    [keys |-> DictKeys(results),
     val  |-> [link \in {results[i].self_link : i \in 1..Len(results)}
                  |-> DictValue(results, link)]]

\* lines 196, 200, 204, 214, 218: the team filter of the two range searches
team_filter(bugsub) ==
    IF bugsub THEN "bug_subscriber" ELSE "structural_subscriber"

\* lines 198-201, 212-215
bugs_since_start(coll, start_date, bugsub, dup) ==
    Dict(searchTasks(coll, start_date, team_filter(bugsub), dup))

\* lines 202-205, 216-219
bugs_since_end(coll, end_date, bugsub, dup) ==
    Dict(searchTasks(coll, end_date, team_filter(bugsub), dup))

\* already_sub_since_start that asks the service in both modes
already_sub_since_start_always(coll, start_date, bugsub, dup) ==
    Dict(searchTasks(coll, start_date, "both", dup))

\* lines 208, 220-224
already_sub_since_start(coll, start_date, bugsub, dup) ==
    IF bugsub THEN Dict(<<>>)
    ELSE Dict(searchTasks(coll, start_date, "both", dup))

\* bugs_in_range without the subtraction
bugs_in_range_all(since_start, since_end) == since_start

\* bugs_in_range with the operands of the subtraction swapped
bugs_in_range_swapped(since_start, since_end) ==
    LET Keep(link) == link \notin DOMAIN since_start.val
    IN  [keys |-> SelectSeq(since_end.keys, Keep),
         val  |-> [link \in {l \in DOMAIN since_end.val : Keep(l)}
                      |-> since_end.val[link]]]

\* lines 226-229: the links of bugs_since_start not in bugs_since_end
bugs_in_range(since_start, since_end) ==
    LET Keep(link) == link \notin DOMAIN since_end.val
    IN  [keys |-> SelectSeq(since_start.keys, Keep),
         val  |-> [link \in {l \in DOMAIN since_start.val : Keep(l)}
                      |-> since_start.val[link]]]

\* lines 231-239: the set of Task objects returned
modified_bugs(coll, start_date, end_date, bugsub, dup) ==
    LET in_range == bugs_in_range(bugs_since_start(coll, start_date, bugsub, dup),
                                  bugs_since_end(coll, end_date, bugsub, dup))
        already  == already_sub_since_start(coll, start_date, bugsub, dup)
    IN  {Task(i, in_range.val[in_range.keys[i]],
              in_range.keys[i] \in DOMAIN already.val) :
            i \in 1..Len(in_range.keys)}

\* modified_bugs_calls reusing a connection instead of connecting again
modified_bugs_calls_noLogin(coll, start_date, end_date, bugsub, dup) ==
    <<Search(coll, start_date, team_filter(bugsub), dup),
      Search(coll, end_date, team_filter(bugsub), dup)>>
    \o (IF bugsub THEN <<>> ELSE <<Search(coll, start_date, "both", dup)>>)

\* lines 192-224: the remote calls of modified_bugs, in order
modified_bugs_calls(coll, start_date, end_date, bugsub, dup) ==
    <<Login,
      Search(coll, start_date, team_filter(bugsub), dup),
      Search(coll, end_date, team_filter(bugsub), dup)>>
    \o (IF bugsub THEN <<>> ELSE <<Search(coll, start_date, "both", dup)>>)

\* lines 266-269: the remote calls of report_current_backlog
report_current_backlog_calls(coll, dup) ==
    <<Login, Search(coll, NoneVal, "bug_subscriber", dup)>>

\* Outcome with the failure of a call swallowed: the function returns its value
Outcome_swallowed(planned, k, value) ==
    IF k = 0
    THEN [raised |-> FALSE, calls |-> planned, value |-> value]
    ELSE [raised |-> FALSE, calls |-> Attempted(planned, k), value |-> value]

\* what a function that makes the planned calls hands back when the k-th of
\* them fails (k = 0: none does): an exception of the client library is not
\* caught anywhere, so no value is returned
Outcome(planned, k, value) ==
    IF k = 0
    THEN [raised |-> FALSE, calls |-> planned, value |-> value]
    ELSE [raised |-> TRUE, calls |-> Attempted(planned, k), value |-> {}]

------------------------------------------------------------------------------
(* The inputs of a run. *)

\* the first day user-supplied dates are drawn from: Friday 2016-12-30
FirstDay == toordinal(<<2016, 12, 30>>)

UserDays == FirstDay..(FirstDay + NumDays - 1)

\* date strings that do not parse as YYYY-MM-DD
BadDates == {<<2016, 13, 1>>, <<2017, 2, 29>>}

GoodDateArgs == {StrVal(strftime(d)) : d \in UserDays}

DateArgs == {NoneVal} \cup GoodDateArgs \cup {StrVal(ymd) : ymd \in BadDates}

\* a week of possible "today"s, Saturday 2016-12-31 to Friday 2017-01-06
Week == (FirstDay + 1)..(FirstDay + 7)

\* the title of the i-th task of a collection whose titles do not matter
TitleOf(i) == IF i % 2 = 1 THEN TitleShort ELSE TitleSeven

RemoteTask(i, ttl, st, t, structural, direct) ==
    [self_link |-> i, title |-> ttl, status |-> st, date_last_updated |-> t,
     structural |-> structural, direct |-> direct]

\* the instants a task may have been last modified at: midnight and noon of
\* the user's days and of the day after them
BugTimes ==
    {Midnight(d) : d \in FirstDay..(FirstDay + NumDays)}
    \cup {Noon(d) : d \in FirstDay..(FirstDay + NumDays)}

\* collections of up to MaxBugs tasks that differ in modification time and
\* subscriptions, listed in a fixed order (tasks are interchangeable); every
\* task has the team subscribed in at least one way (no search of a run
\* selects a task the team is not subscribed to at all)
TimedOptions == {o \in BugTimes \X BOOLEAN \X BOOLEAN : o[2] \/ o[3]}

OptionKey(o) == 4 * o[1] + (IF o[2] THEN 2 ELSE 0) + (IF o[3] THEN 1 ELSE 0)

TimedRemotesOf(n) ==
    {[i \in 1..n |-> RemoteTask(i, TitleOf(i), StatusNew, f[i][1], f[i][2], f[i][3])] :
        f \in {g \in [1..n -> TimedOptions] :
                  \A i \in 1..(n - 1) : OptionKey(g[i]) <= OptionKey(g[i + 1])}}

TimedRemotes == UNION {TimedRemotesOf(n) : n \in 0..MaxBugs}

\* collections of up to MaxBugs tasks, all modified at noon of FirstDay and
\* structurally subscribed, that differ in title and direct subscription
TitledRemotesOf(n) ==
    {[i \in 1..n |-> RemoteTask(i, f[i][1],
                                IF i % 2 = 1 THEN StatusNew ELSE StatusIncomplete,
                                Noon(FirstDay), TRUE, f[i][2])] :
        f \in [1..n -> Titles \X BOOLEAN]}

TitledRemotes == UNION {TitledRemotesOf(n) : n \in 0..MaxBugs}

Start ==
    /\ pc = "main"
    /\ calls = <<>>
    /\ log = <<>>
    /\ opened = <<>>
    /\ dates = [raised |-> FALSE, start |-> NoneVal, end |-> NoneVal, log |-> <<>>]
    /\ bugs = {}
    /\ error = ""

\* runs that differ in the flags and in what the tasks look like
Init ==
    /\ \/ start = NoneVal /\ nodatefilter = TRUE
       \/ start = StrVal(strftime(FirstDay)) /\ nodatefilter = FALSE
    /\ end = NoneVal
    /\ bugsubscriber \in BOOLEAN
    /\ open_in_browser \in BOOLEAN
    /\ shortlinks \in BOOLEAN
    /\ now = Noon(FirstDay + NumDays + 1)
    /\ remote \in TitledRemotes
    /\ repeats \in BOOLEAN
    /\ Start

\* runs that differ in the date arguments and in the day they happen on
InitDates ==
    /\ start \in DateArgs
    /\ end \in DateArgs
    /\ nodatefilter \in BOOLEAN
    /\ bugsubscriber = FALSE
    /\ open_in_browser = FALSE
    /\ shortlinks = TRUE
    /\ now \in {Noon(d) : d \in Week}
    /\ remote = <<RemoteTask(1, TitleExample, StatusNew, Noon(FirstDay), TRUE, TRUE)>>
    /\ repeats = FALSE
    /\ Start

\* runs that differ in the (well-formed) dates and in when the tasks were
\* modified and who is subscribed to them
InitBugs ==
    /\ start \in GoodDateArgs
    /\ end \in {NoneVal} \cup GoodDateArgs
    /\ nodatefilter = FALSE
    /\ bugsubscriber \in BOOLEAN
    /\ open_in_browser = FALSE
    /\ shortlinks = TRUE
    /\ now = Noon(FirstDay + NumDays + 1)
    /\ remote \in TimedRemotes
    /\ repeats = FALSE
    /\ Start

------------------------------------------------------------------------------
(* main *)

\* line 283-284: connect_launchpad(), then the heading is logged
Connect ==
    /\ pc = "main"
    /\ \E k \in FailPoints(<<Login>>) :
         LET out == Outcome(<<Login>>, k, {})
         IN  /\ calls' = calls \o out.calls
             /\ IF out.raised
                THEN /\ pc' = "aborted"
                     /\ error' = "RemoteError"
                     /\ log' = log
                ELSE /\ pc' = "connected"
                     /\ error' = error
                     /\ log' = Append(log, Line("main", <<"Ubuntu Server Bug List">>))
    /\ UNCHANGED <<args, opened, dates, bugs>>

\* line 285: report_current_backlog(lpname)
ReportCurrentBacklog ==
    /\ pc = "connected"
    /\ \E planned \in {report_current_backlog_calls(remote, repeats)} :
           \E k \in FailPoints(planned) :
         LET out == Outcome(planned, k, {})
         IN  /\ calls' = calls \o out.calls
             /\ IF out.raised
                THEN /\ pc' = "aborted"
                     /\ error' = "RemoteError"
                     /\ log' = log
                ELSE /\ pc' = "backlog_reported"
                     /\ error' = error
                     /\ log' = log \o
                          <<LineN("report_current_backlog",
                                  <<"Team %s currently subscribed to %d bugs">>,
                                  planned[2].n),
                            Line("report_current_backlog", <<"---">>)>>
    /\ UNCHANGED <<args, opened, dates, bugs>>

\* line 286: create_bug_list(start, end, lpname, bugsubscriber, nodatefilter)
CreateBugList ==
    /\ pc = "backlog_reported"
    /\ \E cd \in {check_dates(start, end, nodatefilter, now)} :
       LET patient == <<Line("create_bug_list", <<"Please be patient, this can take a few minutes...">>)>>
       IN  /\ dates' = cd
           /\ IF cd.raised
              THEN /\ pc' = "aborted"
                   /\ error' = "ValueError"
                   /\ log' = log \o patient \o cd.log
                   /\ UNCHANGED <<calls, bugs>>
              ELSE \E planned \in {modified_bugs_calls(remote, cd.start, cd.end,
                                                       bugsubscriber, repeats)} :
                   \E k \in FailPoints(planned) :
                     LET out == Outcome(planned, k,
                                        modified_bugs(remote, cd.start, cd.end,
                                                      bugsubscriber, repeats))
                     IN  /\ calls' = calls \o out.calls
                         /\ bugs' = out.value
                         /\ IF out.raised
                            THEN /\ pc' = "aborted"
                                 /\ error' = "RemoteError"
                                 /\ log' = log \o patient \o cd.log
                            ELSE /\ pc' = "bugs_listed"
                                 /\ error' = error
                                 /\ log' = log \o patient \o cd.log \o
                                      <<LineN("create_bug_list", <<"Found %s bugs">>,
                                              Cardinality(out.value)),
                                        Line("create_bug_list", <<"---">>)>>
    /\ UNCHANGED <<args, opened>>

\* the orders a set of Task objects may be iterated in
Orders(tasks) ==
    {f \in [1..Cardinality(tasks) -> tasks] : \A t \in tasks : \E i \in DOMAIN f : f[i] = t}

\* line 287: print_bugs(bugs, open_in_browser, shortlinks)
PrintBugs ==
    /\ pc = "bugs_listed"
    /\ \E order \in Orders(bugs) :
         /\ log' = log \o [i \in DOMAIN order |->
                              Line("print_bugs", compose_pretty(order[i], shortlinks))]
         /\ opened' = IF open_in_browser
                      THEN opened \o [i \in DOMAIN order |-> url(order[i])]
                      ELSE opened
    /\ pc' = "done"
    /\ UNCHANGED <<args, calls, dates, bugs, error>>

Next == Connect \/ ReportCurrentBacklog \/ CreateBugList \/ PrintBugs

Spec == Init /\ [][Next]_vars

SpecDates == InitDates /\ [][Next]_vars

SpecBugs == InitBugs /\ [][Next]_vars

------------------------------------------------------------------------------
(* Vocabulary of the properties. *)

\* check_dates has been called in this run
Ran == dates.start.tag # "None"

\* check_dates has returned a range
Returned == Ran /\ ~dates.raised

\* create_bug_list has returned its set of bugs
Listed == pc \in {"bugs_listed", "done"}

Today == DayOf(now)

\* the links of the Task objects returned
ReturnedLinks == {b.obj.self_link : b \in bugs}

\* the tasks of the collection the team filter of the run selects
TeamTasks ==
    {remote[i] : i \in {j \in DOMAIN remote :
                           IF bugsubscriber THEN remote[j].direct
                           ELSE remote[j].structural}}

\* the inclusive end date the user asked for, as an ordinal
UserEnd == toordinal(IF Truthy(end) THEN end.ymd ELSE start.ymd)

\* the lines print_bugs logged
BugLines == {log[i].text : i \in {j \in DOMAIN log : log[j].fn = "print_bugs"}}

FailedCalls == {i \in DOMAIN calls : ~calls[i].ok}

CallsOf(op) == {i \in DOMAIN calls : calls[i].op = op}

------------------------------------------------------------------------------
(* C1: for user dates start <= end, the bugs create_bug_list returns are      *)
(* exactly the team-filtered tasks last modified at an instant t with         *)
(* start 00:00 <= t < (end + 1 day) 00:00.                                    *)

C1_RangeExact ==
    (Listed /\ Truthy(start) /\ toordinal(start.ymd) <= UserEnd)
    => ReturnedLinks =
         {task.self_link : task \in
            {x \in TeamTasks :
                /\ Midnight(toordinal(start.ymd)) <= x.date_last_updated
                /\ x.date_last_updated < Midnight(UserEnd + 1)}}

\* a two-day range that keeps a task modified at noon of the end day and drops
\* a task modified at midnight of the day after
C1_Witness ==
    /\ Listed
    /\ Truthy(end) /\ toordinal(start.ymd) < toordinal(end.ymd)
    /\ \E b \in bugs : b.obj.date_last_updated = Noon(toordinal(end.ymd))
    /\ \E x \in TeamTasks :
          /\ x.date_last_updated = Midnight(toordinal(end.ymd) + 1)
          /\ x.self_link \notin ReturnedLinks

------------------------------------------------------------------------------
(* C2 (as amended): check_dates(None, None, nodatefilter=False) run on a      *)
(* Monday returns the three-day range Friday to Sunday (start = three days    *)
(* before today, inclusive end = yesterday); on any other weekday it returns  *)
(* the single day yesterday.  The end returned is the day after the           *)
(* inclusive end.                                                             *)

C2_DefaultRange ==
    (Ran /\ ~Truthy(start) /\ ~Truthy(end) /\ ~nodatefilter)
    => /\ ~dates.raised
       /\ dates.start.tag = "str" /\ dates.end.tag = "str"
       /\ toordinal(dates.end.ymd) - 1 = Today - 1
       /\ toordinal(dates.start.ymd) =
             (IF weekday(Today) = 0 THEN Today - 3 ELSE Today - 1)

\* Monday 2017-01-02: the range starts on Friday 2016-12-30
C2_Witness ==
    /\ Ran /\ ~Truthy(start) /\ ~Truthy(end) /\ ~nodatefilter
    /\ weekday(Today) = 0
    /\ dates.start = StrVal(<<2016, 12, 30>>)
    /\ dates.end = StrVal(<<2017, 1, 2>>)

\* C2 as stated: on a Monday the range is Saturday and Sunday (start = two
\* days before today)
C2_Original ==
    (Ran /\ ~Truthy(start) /\ ~Truthy(end) /\ ~nodatefilter)
    => /\ ~dates.raised
       /\ dates.start.tag = "str" /\ dates.end.tag = "str"
       /\ toordinal(dates.end.ymd) - 1 = Today - 1
       /\ toordinal(dates.start.ymd) =
             (IF weekday(Today) = 0 THEN Today - 2 ELSE Today - 1)

------------------------------------------------------------------------------
(* C3 (as amended): on every path through check_dates that returns date       *)
(* strings, the end returned is exactly one calendar day past the inclusive   *)
(* end date of the range (the user's end, else the user's start, else the     *)
(* defaulted end); on the no-date-filter path (start absent, nodatefilter     *)
(* set) the end returned is 'now' itself, with no day added.                  *)

\* the inclusive end of the range on the paths that return date strings
InclusiveEnd ==
    IF ~Truthy(start) /\ weekday(Today - 1) = 6 THEN Today - 1
    ELSE IF Truthy(end) THEN toordinal(end.ymd)
    ELSE IF Truthy(start) THEN toordinal(start.ymd)
    ELSE Today - 1

NoDateFilterPath == ~Truthy(start) /\ nodatefilter

------------------------------------------------------------------------------
(* C4: check_dates fails with an invalid-date error whenever a supplied date  *)
(* string does not parse as YYYY-MM-DD, and no remote query is issued after   *)
(* the failure; stated here for the start date ("a malformed start is         *)
(* rejected even when a well-formed end is supplied").                        *)

C4_MalformedStartRejected ==
    (Ran /\ Truthy(start) /\ ~Parses(start.ymd))
    => /\ dates.raised
       /\ error = "ValueError"
       /\ Len(calls) = 3   \* the two logins and the backlog search before it

------------------------------------------------------------------------------
(* C5: a returned bug is marked subscribed if and only if the run is in       *)
(* structural-subscriber mode and the bug is among the tasks modified since   *)
(* start that the team is both structurally and directly subscribed to; in    *)
(* bug-subscriber mode no returned bug is marked subscribed.                  *)

C5_SubscribedAnnotation ==
    Listed
    => \A b \in bugs :
          b.subscribed <=>
             /\ ~bugsubscriber
             /\ \E i \in DOMAIN remote :
                   /\ remote[i].self_link = b.obj.self_link
                   /\ remote[i].structural /\ remote[i].direct
                   /\ remote[i].date_last_updated >= Midnight(toordinal(start.ymd))

\* structural mode: one returned bug is marked, another is not
C5_Witness ==
    /\ Listed /\ ~bugsubscriber
    /\ \E a \in bugs : a.subscribed
    /\ \E b \in bugs : ~b.subscribed

------------------------------------------------------------------------------
(* C6: the set modified_bugs returns holds at most one Task per self_link,    *)
(* also when a listing of the service repeats an entry.                       *)

C6_OnePerLink ==
    \A a \in bugs : \A b \in bugs : a.obj.self_link = b.obj.self_link => a = b

\* a search returned more entries than the collection has tasks, and bugs
\* were returned
C6_Witness ==
    /\ Listed /\ bugs # {}
    /\ \E i \in CallsOf("searchTasks") : calls[i].n > Len(remote)

------------------------------------------------------------------------------
(* C7 (as amended): if a search fails, the run is aborted with no bug output  *)
(* and no partial bug list: no bug line has been printed and no browser has   *)
(* been opened, whichever search failed.  The heading, and the lines of the   *)
(* steps completed before the failing search, have been logged by then.       *)

C7_NoPartialResults ==
    (FailedCalls # {})
    => /\ pc = "aborted"
       /\ BugLines = {}
       /\ opened = <<>>

\* the last search of modified_bugs failed in a run that would have printed
\* and opened a bug
C7_Witness ==
    /\ pc = "aborted" /\ error = "RemoteError"
    /\ open_in_browser /\ remote # <<>>
    /\ Len(calls) = 7 /\ ~calls[7].ok /\ calls[7].op = "searchTasks"

\* C7 as stated: the run is aborted with no output at all
C7_Original ==
    (FailedCalls # {})
    => /\ pc = "aborted"
       /\ log = <<>>
       /\ opened = <<>>

------------------------------------------------------------------------------
(* C8 (as amended): with shortlinks, each bug's line starts with the          *)
(* shortlink 'LP: #<number>' left-justified to a width of 7 + the length of   *)
(* 'LP: #' (12), then ' - ', then the marker and the status in parentheses:   *)
(* '*(<status>)' when subscribed, '(<status>)' when not.  For bug 123456,     *)
(* subscribed: 'LP: #123456' padded to 13 characters, then '- *(<status>)'.   *)

LinkPrefix == <<"L", "P", ":", " ", "#">>

Spaces(n) == [i \in 1..n |-> " "]

\* the digits of the bug number in a title 'Bug #<number> in ...'
RECURSIVE DigitsAt(_, _)
DigitsAt(s, i) ==
    IF i > Len(s) \/ s[i] = " " THEN <<>> ELSE <<s[i]>> \o DigitsAt(s, i + 1)

Shortlink(b) == LinkPrefix \o DigitsAt(b.obj.title, 6)

Marker(b) == IF b.subscribed THEN <<"*">> ELSE <<>>

C8_ShortlinkLine ==
    (pc = "done" /\ shortlinks)
    => \A b \in bugs :
          \E text \in BugLines :
             StartsWith(text,
                 Shortlink(b)
                 \o Spaces(7 + Len(LinkPrefix) - Len(Shortlink(b)))
                 \o <<" ", "-", " ">>
                 \o Marker(b) \o <<"(">> \o b.obj.status \o <<")">>)

\* the line of bug 123456, subscribed, status New, as Python prints it
C8_Witness ==
    /\ pc = "done" /\ shortlinks
    /\ \E b \in bugs : b.subscribed /\ b.obj.title = TitleExample
    /\ <<"L", "P", ":", " ", "#", "1", "2", "3", "4", "5", "6", " ", " ", "-", " ", "*", "(", "N", "e", "w", ")", " ", " ", " ", " ", " ", " ", " ", " ", " ", " ", " ", "[", "t", "h", "u", "n", "d", "e", "r", "b", "i", "r", "d", "]", " ", " ", " ", " ", "-", " ", "C", "r", "a", "s", "h", "e", "s", " ", "o", "n", " ", "s", "t", "a", "r", "t", "u", "p">> \in BugLines

\* C8 as stated: the marker is followed by the status itself
C8_Original ==
    (pc = "done" /\ shortlinks)
    => \A b \in bugs :
          \E text \in BugLines :
             StartsWith(text,
                 Shortlink(b)
                 \o Spaces(7 + Len(LinkPrefix) - Len(Shortlink(b)))
                 \o <<" ", "-", " ">>
                 \o Marker(b) \o b.obj.status)

------------------------------------------------------------------------------
(* C9 (as amended): a run of main that completes calls connect_launchpad     *)
(* three times (in main, in report_current_backlog, in modified_bugs) and     *)
(* makes three searches in bug-subscriber mode or four in                     *)
(* structural-subscriber mode: the backlog search, then the start-date and    *)
(* end-date searches and, in structural mode, the already-subscribed search;  *)
(* in this order, and no other call.                                          *)

OpsOf(cs) == [i \in DOMAIN cs |-> cs[i].op]

C9_CallSequence ==
    Listed
    => /\ FailedCalls = {}
       /\ OpsOf(calls) =
             <<"login_with", "login_with", "searchTasks",
               "login_with", "searchTasks", "searchTasks">>
             \o (IF bugsubscriber THEN <<>> ELSE <<"searchTasks">>)
       /\ calls[3].since = NoneVal /\ calls[3].filter = "bug_subscriber"
       /\ calls[5].since = dates.start /\ calls[6].since = dates.end
       /\ calls[5].filter = calls[6].filter
       /\ calls[5].filter =
             (IF bugsubscriber THEN "bug_subscriber" ELSE "structural_subscriber")
       /\ ~bugsubscriber => calls[7].since = dates.start /\ calls[7].filter = "both"

C9_Witness ==
    /\ pc = "done" /\ ~bugsubscriber
    /\ Len(calls) = 7 /\ bugs # {}

\* C9 as stated: one handshake, then two or three searches
C9_Original ==
    pc = "done"
    => /\ Cardinality(CallsOf("login_with")) = 1
       /\ Cardinality(CallsOf("searchTasks")) = (IF bugsubscriber THEN 2 ELSE 3)

------------------------------------------------------------------------------
(* C10: with a well-formed start strictly later than the end, check_dates     *)
(* raises no error and modified_bugs returns the empty set, whatever the      *)
(* collection holds and in both filter modes.                                 *)

StartAfterEnd ==
    /\ Truthy(start) /\ Truthy(end)
    /\ Parses(start.ymd) /\ Parses(end.ymd)
    /\ toordinal(start.ymd) > toordinal(end.ymd)

C10_ReversedRangeEmpty ==
    (StartAfterEnd /\ Ran)
    => /\ ~dates.raised
       /\ Listed => bugs = {}

\* the start-date search found a task, and nothing is returned
C10_Witness ==
    /\ StartAfterEnd /\ Listed /\ bugs = {}
    /\ \E x \in TeamTasks : x.date_last_updated >= Midnight(toordinal(start.ymd))

====
